---- MODULE Spec2Model ----
(***************************************************************************)
(* Model of the core of the learning bot:                                  *)
(*   - UserService.check_rate_limit   (src/user_service.py)                *)
(*   - the admission gate of LearningBot.handle_message, run as            *)
(*     coroutines on one asyncio event loop (src/learning_bot.py)          *)
(*   - split_message                  (src/utils.py)                       *)
(* Time is in whole seconds.  Text is a sequence of one-character strings. *)
(***************************************************************************)
EXTENDS Integers, Sequences, FiniteSets, TLC

\* ------------------------------------------------------------------ bounds
MaxTime == 3
MaxCalls == 4
MaxLimit == 2
MaxWindow == 2
MaxMsgs == 3
MaxLen == 7
MaxMax == 4
MaxSendLen == 2
MaxEvents == 2
MaxSignals == 3

Users == {1, 2}
Limits == (0 - 1)..MaxLimit
Windows == 1..MaxWindow
Tasks == {1, 2}
NoTask == 0
Alphabet == {"a", ".", " ", "\n"}
Texts == UNION {[1..n -> Alphabet] : n \in 0..MaxLen}
SendAlphabet == {"a", "*", ".", "\\"}
SendTexts == UNION {[1..n -> SendAlphabet] : n \in 0..MaxSendLen}
ParseModes == {"Markdown", "MarkdownV2", "HTML", "None"}
Outcomes == {"ok", "BadRequest", "Other"}

VARIABLES
    now,           \* the clock read by time.time()
    limit,         \* the limit argument, config.RATE_LIMIT in the bot (one value per run)
    time_window,   \* the time_window argument (one value per run)
    rate_limits,   \* UserService._rate_limits: user_id -> list of timestamps
    calls,         \* history: user -> <<time, result>> of each completed call
    last,          \* history: the latest completed call, with the list before and after
    loop,          \* the task the event loop is running, NoTask when idle
    pc,            \* per task: position inside handle_message
    user_id,       \* per task: update.effective_user.id
    current_time,  \* per task: local current_time
    timestamps,    \* per task: local timestamps
    free,          \* per task: free slots in the window when the check began
    result,        \* per task: value returned by check_rate_limit
    handled,       \* number of updates dispatched so far
    granted,       \* history: <<user, time>> of every admitted handler
    checked_at,    \* history: user -> time of its last completed check
    text,          \* split_message argument
    max_length,    \* split_message argument
    chunks,        \* split_message return value
    returned,      \* split_message has returned
    clock_back,    \* history: the system clock has been set back
    effective_chat,\* safe_send_message: update.effective_chat is present
    parse_mode,    \* safe_send_message argument, "None" for None
    message,       \* safe_send_message argument text
    sent,          \* history: the send_message calls made, each with its outcome
    send_pc,       \* position inside safe_send_message
    returns,       \* "True", "False", "raised" (an exception left the function), "none" before
    h_kind,        \* the handler running: "text", "learn", "search", "button", "none" when idle
    h_user,        \* the user of the update being handled
    h_pc,          \* position inside the running handler
    h_check,       \* result of check_rate_limit in this handler: "true", "false", "none" if not called
    fx,            \* history: what the running handler has done so far, in order
    propagated,    \* an exception left the running handler
    chat,          \* ai_service.chat: the users whose messages the one chat session holds
    last_request,  \* history: the latest generative request, with the history it was given
    events,        \* number of updates dispatched to a handler so far
    run_pc,        \* position inside LearningBot.run
    signals,       \* number of SIGINT/SIGTERM delivered so far
    shutdown_pc,   \* per delivered signal: position of its shutdown(bot) task
    stop_log,      \* history: the calls of the shutdown sequence, <<caller, call>>
    signal_handlers \* main installed the SIGINT/SIGTERM handlers (add_signal_handler is supported)

rlVars == <<now, limit, time_window, rate_limits, calls, last>>
taskVars == <<loop, pc, user_id, current_time, timestamps, free,
              result, handled, granted, checked_at>>
splitVars == <<text, max_length, chunks, returned>>
clockVars == <<clock_back>>
sendVars == <<effective_chat, parse_mode, message, sent, send_pc, returns>>
botVars == <<h_kind, h_user, h_pc, h_check, fx, propagated, chat, last_request, events>>
stopVars == <<run_pc, signals, shutdown_pc, stop_log, signal_handlers>>
vars == <<now, limit, time_window, rate_limits, calls, last, loop, pc, user_id,
          current_time, timestamps, free, result, handled, granted,
          checked_at, text, max_length, chunks, returned, clock_back,
          effective_chat, parse_mode, message, sent, send_pc, returns,
          h_kind, h_user, h_pc, h_check, fx, propagated, chat, last_request,
          events, run_pc, signals, shutdown_pc, stop_log, signal_handlers>>

\* ------------------------------------------------- check_rate_limit (pure)

\* the filter condition of the list comprehension
InWindowInclusive(ts, cur, window) == cur - ts <= window
InWindowAlways(ts, cur, window) == TRUE
InWindowShorter(ts, cur, window) == cur - ts < window - 1
InWindow(ts, cur, window) == cur - ts < window

\* timestamps = [ts for ts in timestamps if current_time - ts < time_window]
PruneBucket(stamps, cur, window) ==
    IF stamps /= <<>> /\ cur - stamps[1] >= window THEN <<>> ELSE stamps
Prune(stamps, cur, window) ==
    SelectSeq(stamps, LAMBDA ts: InWindow(ts, cur, window))

\* cls._rate_limits[user_id] = timestamps
UpdatedSkipped(stored, pruned) == stored
Updated(stored, pruned) == pruned

\* if len(timestamps) >= limit: return False
ExceededStrict(stamps, lim) == Len(stamps) > lim
Exceeded(stamps, lim) == Len(stamps) >= lim

\* the list left in the table when the call returns
RecordedAlways(stored, pruned, cur, lim) == Append(stored, cur)
RecordedFirst(stored, pruned, cur, lim) ==
    IF Len(pruned) >= lim THEN stored ELSE <<cur>> \o stored
Recorded(stored, pruned, cur, lim) ==
    IF Exceeded(pruned, lim) THEN stored ELSE Append(stored, cur)

\* if user_id not in cls._rate_limits: cls._rate_limits[user_id] = []
InitializedAll(table, u) ==
    IF u \in DOMAIN table THEN table ELSE [v \in DOMAIN table \cup {u} |-> <<>>]
Initialized(table, u) ==
    IF u \in DOMAIN table THEN table ELSE table @@ (u :> <<>>)

Stored(u) == IF u \in DOMAIN rate_limits THEN rate_limits[u] ELSE <<>>

\* ------------------------------------------------------------ Init
NoCall == [user |-> 0, time |-> 0, pre |-> <<>>, post |-> <<>>, result |-> FALSE]

InitRL ==
    /\ now = 0
    /\ limit \in Limits
    /\ time_window \in Windows
    /\ rate_limits = <<>>
    /\ calls = [u \in Users |-> <<>>]
    /\ last = NoCall

InitTasks ==
    /\ loop = NoTask
    /\ pc = [t \in Tasks |-> "idle"]
    /\ user_id = [t \in Tasks |-> 1]
    /\ current_time = [t \in Tasks |-> 0]
    /\ timestamps = [t \in Tasks |-> <<>>]
    /\ free = [t \in Tasks |-> 0]
    /\ result = [t \in Tasks |-> FALSE]
    /\ handled = 0
    /\ granted = <<>>
    /\ checked_at = [u \in Users |-> 0 - 1]

InitSplit ==
    /\ text = <<>>
    /\ max_length = 1
    /\ chunks = <<>>
    /\ returned = FALSE

InitClock == clock_back = FALSE

InitSend ==
    /\ effective_chat = TRUE
    /\ parse_mode = "None"
    /\ message = <<>>
    /\ sent = <<>>
    /\ send_pc = "call"
    /\ returns = "none"

NoRequest == [user |-> 0, history |-> <<>>]

InitBot ==
    /\ h_kind = "none"
    /\ h_user = 0
    /\ h_pc = "idle"
    /\ h_check = "none"
    /\ fx = <<>>
    /\ propagated = FALSE
    /\ chat = <<>>
    /\ last_request = NoRequest
    /\ events = 0

InitStop ==
    /\ run_pc = "init_db"
    /\ signals = 0
    /\ shutdown_pc = <<>>
    /\ stop_log = <<>>
    /\ signal_handlers = TRUE

Init == InitRL /\ InitTasks /\ InitSplit /\ InitClock /\ InitSend /\ InitBot /\ InitStop

\* ------------------------------------------------------------ clock
NumCalls == Len(calls[1]) + Len(calls[2])

Tick ==
    /\ now < MaxTime
    /\ now' = now + 1
    /\ UNCHANGED <<limit, time_window, rate_limits, calls, last>>
    /\ UNCHANGED taskVars
    /\ UNCHANGED splitVars
    /\ UNCHANGED clockVars
    /\ UNCHANGED sendVars
    /\ UNCHANGED botVars
    /\ UNCHANGED stopVars

\* ------------------------------------- check_rate_limit as one call
check_rate_limit(u, lim, window) ==
    /\ NumCalls < MaxCalls
    /\ LET cur == now
           table == Initialized(rate_limits, u)
           pruned == Prune(table[u], cur, window)
           stored == Updated(table[u], pruned)
           post == Recorded(stored, pruned, cur, lim)
           ok == ~Exceeded(pruned, lim)
       IN /\ rate_limits' = [table EXCEPT ![u] = post]
          /\ calls' = [calls EXCEPT ![u] = Append(@, <<cur, ok>>)]
          /\ last' = [user |-> u, time |-> cur, pre |-> Stored(u),
                      post |-> post, result |-> ok]
    /\ UNCHANGED <<now, limit, time_window>>
    /\ UNCHANGED taskVars
    /\ UNCHANGED splitVars
    /\ UNCHANGED clockVars
    /\ UNCHANGED sendVars
    /\ UNCHANGED stopVars

Check ==
    /\ \E u \in Users : check_rate_limit(u, limit, time_window)
    /\ UNCHANGED botVars

Next == Tick \/ Check

Spec == Init /\ [][Next]_vars

\* current_time = time.time() reads the wall clock, which the system may set
\* back between two calls
SetBack ==
    /\ now > 0
    /\ \E t \in 0..(now - 1) : now' = t
    /\ clock_back' = TRUE
    /\ UNCHANGED <<limit, time_window, rate_limits, calls, last>>
    /\ UNCHANGED taskVars
    /\ UNCHANGED splitVars
    /\ UNCHANGED sendVars
    /\ UNCHANGED botVars
    /\ UNCHANGED stopVars

NextWall == Tick \/ SetBack \/ Check

SpecWall == Init /\ [][NextWall]_vars

\* ------------- handle_message's admission gate, one coroutine per update
\* A coroutine keeps the event loop until it awaits; check_rate_limit is a
\* plain method with no await, called from `async def handle_message`.
RunnableAnytime(t) == TRUE
Runnable(t) == loop = NoTask \/ loop = t

FreeSlots(u) ==
    limit - Cardinality({i \in DOMAIN Stored(u) : InWindow(Stored(u)[i], now, time_window)})

\* the application hands an update with a user and a text to handle_message
Dispatch(t, u) ==
    /\ pc[t] = "idle"
    /\ handled < MaxMsgs
    /\ handled' = handled + 1
    /\ user_id' = [user_id EXCEPT ![t] = u]
    /\ pc' = [pc EXCEPT ![t] = "start"]
    /\ UNCHANGED <<loop, current_time, timestamps, free, result, granted, checked_at>>
    /\ UNCHANGED rlVars
    /\ UNCHANGED splitVars
    /\ UNCHANGED clockVars
    /\ UNCHANGED sendVars
    /\ UNCHANGED botVars
    /\ UNCHANGED stopVars

\* user_service.check_rate_limit(user_id, RATE_LIMIT); current_time = time.time()
Enter(t) ==
    /\ pc[t] = "start"
    /\ Runnable(t)
    /\ loop' = t
    /\ current_time' = [current_time EXCEPT ![t] = now]
    /\ free' = [free EXCEPT ![t] = FreeSlots(user_id[t])]
    /\ pc' = [pc EXCEPT ![t] = "init"]
    /\ UNCHANGED <<user_id, timestamps, result, handled, granted, checked_at>>
    /\ UNCHANGED rlVars
    /\ UNCHANGED splitVars
    /\ UNCHANGED clockVars
    /\ UNCHANGED sendVars
    /\ UNCHANGED botVars
    /\ UNCHANGED stopVars

\* if user_id not in cls._rate_limits: cls._rate_limits[user_id] = []
InitEntry(t) ==
    /\ pc[t] = "init"
    /\ Runnable(t)
    /\ rate_limits' = Initialized(rate_limits, user_id[t])
    /\ pc' = [pc EXCEPT ![t] = "read"]
    /\ UNCHANGED <<now, limit, time_window, calls, last>>
    /\ UNCHANGED <<loop, user_id, current_time, timestamps, free, result, handled,
                   granted, checked_at>>
    /\ UNCHANGED splitVars
    /\ UNCHANGED clockVars
    /\ UNCHANGED sendVars
    /\ UNCHANGED botVars
    /\ UNCHANGED stopVars

\* timestamps = cls._rate_limits[user_id]
Read(t) ==
    /\ pc[t] = "read"
    /\ Runnable(t)
    /\ timestamps' = [timestamps EXCEPT ![t] = rate_limits[user_id[t]]]
    /\ pc' = [pc EXCEPT ![t] = "prune"]
    /\ UNCHANGED <<loop, user_id, current_time, free, result, handled, granted, checked_at>>
    /\ UNCHANGED rlVars
    /\ UNCHANGED splitVars
    /\ UNCHANGED clockVars
    /\ UNCHANGED sendVars
    /\ UNCHANGED botVars
    /\ UNCHANGED stopVars

\* timestamps = [ts for ts in timestamps if current_time - ts < time_window]
PruneStep(t) ==
    /\ pc[t] = "prune"
    /\ Runnable(t)
    /\ timestamps' = [timestamps EXCEPT ![t] = Prune(@, current_time[t], time_window)]
    /\ pc' = [pc EXCEPT ![t] = "update"]
    /\ UNCHANGED <<loop, user_id, current_time, free, result, handled, granted, checked_at>>
    /\ UNCHANGED rlVars
    /\ UNCHANGED splitVars
    /\ UNCHANGED clockVars
    /\ UNCHANGED sendVars
    /\ UNCHANGED botVars
    /\ UNCHANGED stopVars

\* cls._rate_limits[user_id] = timestamps
Update(t) ==
    /\ pc[t] = "update"
    /\ Runnable(t)
    /\ rate_limits' = [rate_limits EXCEPT ![user_id[t]] = Updated(@, timestamps[t])]
    /\ pc' = [pc EXCEPT ![t] = "test"]
    /\ UNCHANGED <<now, limit, time_window, calls, last>>
    /\ UNCHANGED <<loop, user_id, current_time, timestamps, free, result, handled,
                   granted, checked_at>>
    /\ UNCHANGED splitVars
    /\ UNCHANGED clockVars
    /\ UNCHANGED sendVars
    /\ UNCHANGED botVars
    /\ UNCHANGED stopVars

\* the length test, the append and the return; back in handle_message the
\* next statement awaits (reply_text or get_or_create_user)
Test(t) ==
    /\ pc[t] = "test"
    /\ Runnable(t)
    /\ LET u == user_id[t]
           ok == ~Exceeded(timestamps[t], limit)
       IN /\ rate_limits' = [rate_limits EXCEPT
                 ![u] = Recorded(@, timestamps[t], current_time[t], limit)]
          /\ result' = [result EXCEPT ![t] = ok]
          /\ granted' = IF ok THEN Append(granted, <<u, current_time[t]>>) ELSE granted
          /\ checked_at' = [checked_at EXCEPT ![u] = current_time[t]]
    /\ loop' = NoTask
    /\ pc' = [pc EXCEPT ![t] = "await"]
    /\ UNCHANGED <<now, limit, time_window, calls, last>>
    /\ UNCHANGED <<user_id, current_time, timestamps, free, handled>>
    /\ UNCHANGED splitVars
    /\ UNCHANGED clockVars
    /\ UNCHANGED sendVars
    /\ UNCHANGED botVars
    /\ UNCHANGED stopVars

\* the rest of handle_message runs to its end
Finish(t) ==
    /\ pc[t] = "await"
    /\ Runnable(t)
    /\ pc' = [pc EXCEPT ![t] = "idle"]
    /\ UNCHANGED <<loop, user_id, current_time, timestamps, free, result, handled,
                   granted, checked_at>>
    /\ UNCHANGED rlVars
    /\ UNCHANGED splitVars
    /\ UNCHANGED clockVars
    /\ UNCHANGED sendVars
    /\ UNCHANGED botVars
    /\ UNCHANGED stopVars

NextTasks ==
    \/ Tick
    \/ \E t \in Tasks, u \in Users : Dispatch(t, u)
    \/ \E t \in Tasks : Enter(t)
    \/ \E t \in Tasks : InitEntry(t)
    \/ \E t \in Tasks : Read(t)
    \/ \E t \in Tasks : PruneStep(t)
    \/ \E t \in Tasks : Update(t)
    \/ \E t \in Tasks : Test(t)
    \/ \E t \in Tasks : Finish(t)

SpecTasks == Init /\ [][NextTasks]_vars

\* ------------------------------------------------------- split_message
NewLines == <<"\n", "\n">>
DotSpace == <<".", " ">>

\* str.split(sep) for a two-character separator: leftmost matches, never
\* overlapping; always at least one piece
RECURSIVE FindSep(_, _, _)
FindSep(s, sep, i) ==
    IF i + 1 > Len(s) THEN 0
    ELSE IF s[i] = sep[1] /\ s[i + 1] = sep[2] THEN i
    ELSE FindSep(s, sep, i + 1)

RECURSIVE SplitOn(_, _)
SplitOn(s, sep) ==
    LET j == FindSep(s, sep, 1)
    IN IF j = 0 THEN <<s>>
       ELSE <<SubSeq(s, 1, j - 1)>> \o SplitOn(SubSeq(s, j + 2, Len(s)), sep)

\* [paragraph[i:i+max_length] for i in range(0, len(paragraph), max_length)]
SubChunksShort(paragraph, max) ==
    [k \in 1..((Len(paragraph) + max - 1) \div max) |->
        SubSeq(paragraph, (k - 1) * max + 1,
               IF k * max < Len(paragraph) THEN k * max - 1 ELSE Len(paragraph))]
SubChunks(paragraph, max) ==
    [k \in 1..((Len(paragraph) + max - 1) \div max) |->
        SubSeq(paragraph, (k - 1) * max + 1,
               IF k * max < Len(paragraph) THEN k * max ELSE Len(paragraph))]

\* body of `for sentence in sentences`; st = [chunks, current_chunk]
SentenceStep(st, sentence, paragraph, max) ==
    IF Len(st.current_chunk) + Len(sentence) + 2 > max
    THEN IF st.current_chunk /= <<>>
         THEN [chunks |-> Append(st.chunks, st.current_chunk),
               current_chunk |-> sentence \o DotSpace]
         ELSE [chunks |-> st.chunks \o SubChunks(paragraph, max),
               current_chunk |-> st.current_chunk]
    ELSE [chunks |-> st.chunks,
          current_chunk |-> st.current_chunk \o sentence \o DotSpace]

RECURSIVE SentenceLoop(_, _, _, _)
SentenceLoop(st, sentences, paragraph, max) ==
    IF sentences = <<>> THEN st
    ELSE SentenceLoop(SentenceStep(st, Head(sentences), paragraph, max),
                      Tail(sentences), paragraph, max)

\* body of `for paragraph in paragraphs`
ParagraphStep(st, paragraph, max) ==
    IF Len(st.current_chunk) + Len(paragraph) + 2 > max
    THEN IF st.current_chunk /= <<>>
         THEN [chunks |-> Append(st.chunks, st.current_chunk),
               current_chunk |-> paragraph]
         ELSE SentenceLoop(st, SplitOn(paragraph, DotSpace), paragraph, max)
    ELSE [chunks |-> st.chunks,
          current_chunk |-> IF st.current_chunk /= <<>>
                            THEN st.current_chunk \o NewLines \o paragraph
                            ELSE paragraph]

RECURSIVE ParagraphLoop(_, _, _)
ParagraphLoop(st, paragraphs, max) ==
    IF paragraphs = <<>> THEN st
    ELSE ParagraphLoop(ParagraphStep(st, Head(paragraphs), max), Tail(paragraphs), max)

\* if len(text) <= max_length: return [text]
FitsStrictly(txt, max) == Len(txt) < max
Fits(txt, max) == Len(txt) <= max

\* if current_chunk: chunks.append(current_chunk)
WithLastChunkAlways(st) == Append(st.chunks, st.current_chunk)
WithLastChunk(st) ==
    IF st.current_chunk /= <<>>
    THEN Append(st.chunks, st.current_chunk)
    ELSE st.chunks

split_message(txt, max) ==
    IF Fits(txt, max) THEN <<txt>>
    ELSE WithLastChunk(ParagraphLoop([chunks |-> <<>>, current_chunk |-> <<>>],
                                     SplitOn(txt, NewLines), max))

InitSplitInputs ==
    /\ now = 0
    /\ limit = 1
    /\ time_window = 1
    /\ rate_limits = <<>>
    /\ calls = [u \in Users |-> <<>>]
    /\ last = NoCall
    /\ InitTasks
    /\ InitBot
    /\ InitStop
    /\ InitClock
    /\ InitSend
    /\ text \in Texts
    /\ max_length \in 1..MaxMax
    /\ chunks = <<>>
    /\ returned = FALSE

SplitMessage ==
    /\ ~returned
    /\ chunks' = split_message(text, max_length)
    /\ returned' = TRUE
    /\ UNCHANGED <<text, max_length>>
    /\ UNCHANGED rlVars
    /\ UNCHANGED taskVars
    /\ UNCHANGED clockVars
    /\ UNCHANGED sendVars
    /\ UNCHANGED botVars
    /\ UNCHANGED stopVars

NextSplit == SplitMessage

SpecSplit == InitSplitInputs /\ [][NextSplit]_vars

\* --------------------------------------------------- safe_send_message
\* the grave accent (U+0060) of both character lists, written as a name
\* because a TLA+ string cannot hold it
GraveAccent == "grave"

\* escape_chars = r'_*[]()~`>#+-=|{}.!'
EscapeChars == {"_", "*", "[", "]", "(", ")", "~", GraveAccent, ">", "#", "+", "-",
                "=", "|", "{", "}", ".", "!"}
\* the character class of re.sub(r'[*_`[\]()]', '', text)
StripChars == {"*", "_", GraveAccent, "[", "]", "(", ")"}

\* text.replace(char, "\\" + char) for every escape character; the backslash
\* is not an escape character, so no inserted backslash is escaped again
RECURSIVE sanitize_markdown(_)
sanitize_markdown(t) ==
    IF t = <<>> THEN <<>>
    ELSE (IF Head(t) \in EscapeChars THEN <<"\\", Head(t)>> ELSE <<Head(t)>>)
         \o sanitize_markdown(Tail(t))

\* plain_text = re.sub(r'[*_`[\]()]', '', text)
PlainTextKept(t) == t
PlainText(t) == SelectSeq(t, LAMBDA c : c \notin StripChars)

\* except BadRequest (strategy 1)
Caught1Any(o) == o \in {"BadRequest", "Other"}
Caught1(o) == o = "BadRequest"

\* if parse_mode == "Markdown"
Tier2Never(mode) == FALSE
Tier2Always(mode) == TRUE
Tier2Applies(mode) == mode = "Markdown"

\* except BadRequest (strategy 2)
Caught2(o) == o = "BadRequest"

\* except Exception (strategy 3)
Caught3BadRequest(o) == o = "BadRequest"
Caught3(o) == o \in {"BadRequest", "Other"}

\* where control goes after the send_message call of a tier ended with o
AfterCallFallsThrough(tier, o, mode) ==
    IF o = "ok" /\ tier = 3 THEN [pc |-> "done", ret |-> "True"]
    ELSE IF tier = 1 /\ (o = "ok" \/ Caught1(o))
         THEN [pc |-> IF Tier2Applies(mode) THEN "tier2" ELSE "tier3", ret |-> "none"]
    ELSE IF tier = 2 /\ (o = "ok" \/ Caught2(o)) THEN [pc |-> "tier3", ret |-> "none"]
    ELSE IF tier = 3 /\ Caught3(o) THEN [pc |-> "done", ret |-> "False"]
    ELSE [pc |-> "done", ret |-> "raised"]
AfterCall(tier, o, mode) ==
    IF o = "ok" THEN [pc |-> "done", ret |-> "True"]
    ELSE IF tier = 1 /\ Caught1(o)
         THEN [pc |-> IF Tier2Applies(mode) THEN "tier2" ELSE "tier3", ret |-> "none"]
    ELSE IF tier = 2 /\ Caught2(o) THEN [pc |-> "tier3", ret |-> "none"]
    ELSE IF tier = 3 /\ Caught3(o) THEN [pc |-> "done", ret |-> "False"]
    ELSE [pc |-> "done", ret |-> "raised"]

InitSendInputs ==
    /\ InitRL /\ limit = 1 /\ time_window = 1
    /\ InitTasks
    /\ InitSplit
    /\ InitBot
    /\ InitStop
    /\ InitClock
    /\ effective_chat \in BOOLEAN
    /\ parse_mode \in ParseModes
    /\ message \in SendTexts
    /\ sent = <<>>
    /\ send_pc = "call"
    /\ returns = "none"

SendFrame ==
    /\ UNCHANGED <<effective_chat, parse_mode, message>>
    /\ UNCHANGED rlVars
    /\ UNCHANGED taskVars
    /\ UNCHANGED splitVars
    /\ UNCHANGED clockVars
    /\ UNCHANGED botVars
    /\ UNCHANGED stopVars

\* if not update.effective_chat: return False
SendBegin ==
    /\ send_pc = "call"
    /\ IF effective_chat
       THEN send_pc' = "tier1" /\ returns' = returns
       ELSE send_pc' = "done" /\ returns' = "False"
    /\ UNCHANGED sent
    /\ SendFrame

\* one awaited context.bot.send_message call and what follows its outcome
Attempt(tier, txt, mode, o) ==
    /\ sent' = Append(sent, [tier |-> tier, text |-> txt, mode |-> mode, outcome |-> o])
    /\ send_pc' = AfterCall(tier, o, parse_mode).pc
    /\ returns' = AfterCall(tier, o, parse_mode).ret
    /\ SendFrame

\* Strategy 1: the requested parse mode
Tier1(o) ==
    /\ send_pc = "tier1"
    /\ Attempt(1, message, parse_mode, o)

\* Strategy 2: MarkdownV2 and sanitized text
Tier2(o) ==
    /\ send_pc = "tier2"
    /\ Attempt(2, sanitize_markdown(message), "MarkdownV2", o)

\* Strategy 3: plain text without formatting
Tier3(o) ==
    /\ send_pc = "tier3"
    /\ Attempt(3, PlainText(message), "None", o)

NextSend ==
    \/ SendBegin
    \/ \E o \in Outcomes : Tier1(o)
    \/ \E o \in Outcomes : Tier2(o)
    \/ \E o \in Outcomes : Tier3(o)

SpecSend == InitSendInputs /\ [][NextSend]_vars

\* ------------------------------- safe_send_message, one step per await
\* await context.bot.send_message(...): the coroutine is suspended at the
\* call until the transport answers
NotAwaited(tier) ==
    IF tier = 1 THEN "tier2" ELSE IF tier = 2 THEN "tier3" ELSE "done"
Awaited(tier) ==
    IF tier = 1 THEN "await1" ELSE IF tier = 2 THEN "await2" ELSE "await3"

\* the text and the parse mode each tier hands to send_message
TierText(tier) ==
    IF tier = 1 THEN message
    ELSE IF tier = 2 THEN sanitize_markdown(message)
    ELSE PlainText(message)
TierMode(tier) ==
    IF tier = 1 THEN parse_mode ELSE IF tier = 2 THEN "MarkdownV2" ELSE "None"
TierPc(tier) == IF tier = 1 THEN "tier1" ELSE IF tier = 2 THEN "tier2" ELSE "tier3"

\* the call of a tier is started: the request is in flight
CallTier(tier) ==
    /\ send_pc = TierPc(tier)
    /\ sent' = Append(sent, [tier |-> tier, text |-> TierText(tier),
                             mode |-> TierMode(tier), outcome |-> "pending"])
    /\ send_pc' = Awaited(tier)
    /\ UNCHANGED returns
    /\ SendFrame

\* the transport answers the call in flight and the coroutine resumes
ReturnTier(tier, o) ==
    /\ send_pc = Awaited(tier)
    /\ sent /= <<>>
    /\ sent' = [sent EXCEPT ![Len(sent)].outcome = o]
    /\ send_pc' = AfterCall(tier, o, parse_mode).pc
    /\ returns' = AfterCall(tier, o, parse_mode).ret
    /\ SendFrame

SendTiers == {1, 2, 3}

NextSendAwait ==
    \/ SendBegin
    \/ \E tier \in SendTiers : CallTier(tier)
    \/ \E tier \in SendTiers : \E o \in Outcomes : ReturnTier(tier, o)

SpecSendAwait == InitSendInputs /\ [][NextSendAwait]_vars

\* ------------------------------------------------ the update handlers
Kinds == {"text", "learn", "search", "button"}

\* callback data of an inline button: action:topic, or data without a colon
Actions == {"examples", "quiz", "summary", "other", "malformed"}

BotFrame ==
    /\ UNCHANGED taskVars
    /\ UNCHANGED splitVars
    /\ UNCHANGED clockVars
    /\ UNCHANGED sendVars
    /\ UNCHANGED stopVars

\* the first statement of each handler after its guard
FirstPc(kind) ==
    IF kind = "text" THEN "check" ELSE IF kind = "button" THEN "answer" ELSE "lookup"

\* an update is given to its handler; the handler returns at once when the
\* update has no user, no message or no text
Receive(kind, u, valid) ==
    /\ h_pc \in {"idle", "done"}
    /\ events < MaxEvents
    /\ events' = events + 1
    /\ h_kind' = kind
    /\ h_user' = u
    /\ h_pc' = IF valid \/ kind = "button" THEN FirstPc(kind) ELSE "done"
    /\ h_check' = "none"
    /\ fx' = <<>>
    /\ propagated' = FALSE
    /\ UNCHANGED <<chat, last_request>>
    /\ UNCHANGED rlVars
    /\ BotFrame

\* a statement of the handler that cannot raise: it is done and control moves on
Does(what, to) ==
    /\ fx' = Append(fx, [what |-> what, ok |-> TRUE])
    /\ h_pc' = to
    /\ UNCHANGED <<h_kind, h_user, h_check, propagated, chat, last_request, events>>
    /\ UNCHANGED rlVars
    /\ BotFrame

\* an awaited Telegram call outside any try: it succeeds, or its exception
\* leaves the handler
Sends(what, ok, to) ==
    /\ fx' = Append(fx, [what |-> what, ok |-> ok])
    /\ h_pc' = IF ok THEN to ELSE "done"
    /\ propagated' = ~ok
    /\ UNCHANGED <<h_kind, h_user, h_check, chat, last_request, events>>
    /\ UNCHANGED rlVars
    /\ BotFrame

\* an awaited Telegram call inside try ... except Exception: a failure goes
\* to the handler of the exception
SendsInTry(what, ok, to, handler) ==
    /\ fx' = Append(fx, [what |-> what, ok |-> ok])
    /\ h_pc' = IF ok THEN to ELSE handler
    /\ UNCHANGED <<h_kind, h_user, h_check, propagated, chat, last_request, events>>
    /\ UNCHANGED rlVars
    /\ BotFrame

\* a rejected message gets the wait message and the handler returns
AfterCheckGoesOn(admitted) == "lookup"
AfterCheck(admitted) == IF admitted THEN "lookup" ELSE "wait"

\* if not user_service.check_rate_limit(user_id, RATE_LIMIT)
CheckStep ==
    /\ h_kind = "text"
    /\ h_pc = "check"
    /\ check_rate_limit(h_user, limit, time_window)
    /\ h_check' = IF last'.result THEN "true" ELSE "false"
    /\ h_pc' = AfterCheck(last'.result)
    /\ UNCHANGED <<h_kind, h_user, fx, propagated, chat, last_request, events>>

\* reply_text("You're sending messages too quickly. ..."); return
WaitStep(ok) ==
    /\ h_pc = "wait"
    /\ Sends("wait_message", ok, "done")

\* where a handler goes once it has its user
AfterLookup(kind) ==
    IF kind = "text" THEN "save_user"
    ELSE IF kind = "button" THEN "parse"
    ELSE "args"

\* user = await user_service.get_or_create_user(...); None on any failure
LookupStep(found) ==
    /\ h_pc = "lookup"
    /\ Does("lookup", IF found THEN AfterLookup(h_kind) ELSE "no_user")

\* reply_text("Error initializing user. Please try again."); return
NoUserStep(ok) ==
    /\ h_pc = "no_user"
    /\ Sends("error_init", ok, "done")

\* await user_service.save_message_history(user, message_text)
SaveUserStep ==
    /\ h_pc = "save_user"
    /\ Does("save_user_message", "typing")

\* await context.bot.send_chat_action(...)
TypingStep(ok) ==
    /\ h_pc = "typing"
    /\ Sends("typing", ok, "backend")

\* topic / query = " ".join(context.args); the usage text when it is empty
ArgsStep(given) ==
    /\ h_pc = "args"
    /\ h_kind \in {"learn", "search"}
    /\ IF given THEN h_pc' = "preparing" ELSE h_pc' = "usage"
    /\ UNCHANGED <<h_kind, h_user, h_check, fx, propagated, chat, last_request, events>>
    /\ UNCHANGED rlVars
    /\ BotFrame

UsageStep(ok) ==
    /\ h_pc = "usage"
    /\ Sends("usage", ok, "done")

\* reply_text("Preparing learning content ...") / reply_text("Searching ...")
PreparingStep(ok) ==
    /\ h_pc = "preparing"
    /\ Sends("preparing", ok, IF h_kind = "learn" THEN "session" ELSE "search_db")

\* session = await user_service.start_learning_session(user, topic)
SessionStep ==
    /\ h_pc = "session"
    /\ Does("session", "backend")

\* topics = await CourseService.search_topics(query): the generative
\* backend is asked only when the catalog has nothing
SearchStep(found) ==
    /\ h_pc = "search_db"
    /\ Does("search_db", IF found THEN "reply" ELSE "backend")

\* await query.answer()
AnswerStep(ok, from_user) ==
    /\ h_pc = "answer"
    /\ IF ok /\ ~from_user
       THEN Does("answer", "done")
       ELSE Sends("answer", ok, "lookup")

\* action, topic = query.data.split(":", 1) and the branch on action
ParseStep(action) ==
    /\ h_pc = "parse"
    /\ IF action = "malformed" THEN h_pc' = "invalid"
       ELSE IF action = "other" THEN h_pc' = "reply"
       ELSE h_pc' = "backend"
    /\ UNCHANGED <<h_kind, h_user, h_check, fx, propagated, chat, last_request, events>>
    /\ UNCHANGED rlVars
    /\ BotFrame

\* edit_message_text("Invalid button data. Please try again."); return
InvalidStep(ok) ==
    /\ h_pc = "invalid"
    /\ Sends("invalid", ok, "done")

\* ai_service.get_response / generate_educational_content: the one chat
\* session of the process is sent the message; every exception is caught
\* inside and a fallback text is returned
BackendStep(answered) ==
    /\ h_pc = "backend"
    /\ fx' = Append(fx, [what |-> "backend", ok |-> answered])
    /\ last_request' = [user |-> h_user, history |-> chat]
    /\ chat' = IF answered THEN Append(chat, h_user) ELSE chat
    /\ h_pc' = "reply"
    /\ UNCHANGED <<h_kind, h_user, h_check, propagated, events>>
    /\ UNCHANGED rlVars
    /\ BotFrame

\* the reply with the content: inside try in handle_message, bare elsewhere
ReplyStep(ok) ==
    /\ h_pc = "reply"
    /\ IF h_kind = "text"
       THEN SendsInTry("reply", ok, "save_bot", "error_message")
       ELSE Sends("reply", ok, "activity")

\* await user_service.save_message_history(user, response, is_bot=True)
SaveBotStep ==
    /\ h_pc = "save_bot"
    /\ Does("save_bot_response", "activity")

\* except Exception: reply_text("I'm sorry, I encountered an error ...")
ErrorMessageStep(ok) ==
    /\ h_pc = "error_message"
    /\ Sends("error_message", ok, "activity")

\* await user_service.update_user_activity(user)
ActivityStep ==
    /\ h_pc = "activity"
    /\ Does("activity", IF h_kind = "text" THEN "done" ELSE "save_command")

\* await user_service.save_message_history(user, "/learn ...") and the like
SaveCommandStep ==
    /\ h_pc = "save_command"
    /\ Does("save_command", "done")

\* time passes between two updates
BotTick ==
    /\ h_pc \in {"idle", "done"}
    /\ Tick

NextBot ==
    \/ \E kind \in Kinds : \E u \in Users : \E valid \in BOOLEAN : Receive(kind, u, valid)
    \/ CheckStep
    \/ \E ok \in BOOLEAN : WaitStep(ok)
    \/ \E found \in BOOLEAN : LookupStep(found)
    \/ \E ok \in BOOLEAN : NoUserStep(ok)
    \/ SaveUserStep
    \/ \E ok \in BOOLEAN : TypingStep(ok)
    \/ \E given \in BOOLEAN : ArgsStep(given)
    \/ \E ok \in BOOLEAN : UsageStep(ok)
    \/ \E ok \in BOOLEAN : PreparingStep(ok)
    \/ SessionStep
    \/ \E found \in BOOLEAN : SearchStep(found)
    \/ \E ok \in BOOLEAN : \E from_user \in BOOLEAN : AnswerStep(ok, from_user)
    \/ \E action \in Actions : ParseStep(action)
    \/ \E ok \in BOOLEAN : InvalidStep(ok)
    \/ \E answered \in BOOLEAN : BackendStep(answered)
    \/ \E ok \in BOOLEAN : ReplyStep(ok)
    \/ SaveBotStep
    \/ \E ok \in BOOLEAN : ErrorMessageStep(ok)
    \/ ActivityStep
    \/ SaveCommandStep
    \/ BotTick

SpecBot == Init /\ [][NextBot]_vars

\* ------------------------------------------- run, main and shutdown
\* the awaited start-up calls of run, in order
StartCalls == <<"init_db", "set_commands", "initialize", "start", "start_polling">>

\* updater.stop, application.stop, application.shutdown
StopCalls == <<"updater.stop", "application.stop", "application.shutdown">>

StopFrame ==
    /\ UNCHANGED rlVars
    /\ UNCHANGED taskVars
    /\ UNCHANGED splitVars
    /\ UNCHANGED clockVars
    /\ UNCHANGED sendVars
    /\ UNCHANGED botVars

InitStopInputs ==
    /\ InitRL /\ limit = 1 /\ time_window = 1
    /\ InitTasks
    /\ InitSplit
    /\ InitClock
    /\ InitSend
    /\ InitBot
    /\ run_pc = "init_db"
    /\ signals = 0
    /\ shutdown_pc = <<>>
    /\ stop_log = <<>>
    /\ signal_handlers \in BOOLEAN

\* what the await of stop_signal is ended by: the future is never given a
\* result and never cancelled by the code, so only a cancellation of the
\* main task ends it
Woken(handlers) == ~handlers

\* initialize_db() ... start_polling(): a failure of initialize_db exits the
\* process, any other failure leaves run as an exception
StartStep(k, ok) ==
    /\ k \in DOMAIN StartCalls
    /\ run_pc = StartCalls[k]
    /\ run_pc' = IF ok THEN (IF k < Len(StartCalls) THEN StartCalls[k + 1] ELSE "waiting")
                 ELSE IF k = 1 THEN "exited" ELSE "raised"
    /\ UNCHANGED <<signals, shutdown_pc, stop_log, signal_handlers>>
    /\ StopFrame

\* a SIGINT or SIGTERM reaches the running bot: the installed handler
\* creates a shutdown(bot) task; without handlers the interrupt cancels
\* the main task, which raises CancelledError at await stop_signal
Signal ==
    /\ signals < MaxSignals
    /\ run_pc = "waiting"
    /\ signals' = signals + 1
    /\ shutdown_pc' = IF signal_handlers THEN Append(shutdown_pc, 1) ELSE shutdown_pc
    /\ run_pc' = IF Woken(signal_handlers) THEN "stop1" ELSE run_pc
    /\ UNCHANGED <<stop_log, signal_handlers>>
    /\ StopFrame

\* shutdown(bot): the three calls inside try ... except Exception
ShutdownStep(t, ok) ==
    /\ t \in DOMAIN shutdown_pc
    /\ shutdown_pc[t] \in DOMAIN StopCalls
    /\ stop_log' = Append(stop_log, <<"shutdown", StopCalls[shutdown_pc[t]]>>)
    /\ shutdown_pc' = [shutdown_pc EXCEPT ![t] = IF ok THEN @ + 1 ELSE Len(StopCalls) + 1]
    /\ UNCHANGED <<run_pc, signals, signal_handlers>>
    /\ StopFrame

FinallyPcs == <<"stop1", "stop2", "stop3">>

\* the finally block of run: the three calls, unguarded
FinallyStep(k, ok) ==
    /\ k \in DOMAIN FinallyPcs
    /\ run_pc = FinallyPcs[k]
    /\ stop_log' = Append(stop_log, <<"run", StopCalls[k]>>)
    /\ run_pc' = IF ok THEN (IF k < Len(FinallyPcs) THEN FinallyPcs[k + 1] ELSE "returned")
                 ELSE "raised"
    /\ UNCHANGED <<signals, shutdown_pc, signal_handlers>>
    /\ StopFrame

StartAny == \E k \in DOMAIN StartCalls : \E ok \in BOOLEAN : StartStep(k, ok)
ShutdownAny == \E t \in 1..MaxSignals : \E ok \in BOOLEAN : ShutdownStep(t, ok)
FinallyAny == \E k \in DOMAIN FinallyPcs : \E ok \in BOOLEAN : FinallyStep(k, ok)

NextStop == StartAny \/ Signal \/ ShutdownAny \/ FinallyAny

\* the event loop runs every task that is ready; signals are up to the
\* environment
SpecStop ==
    /\ InitStopInputs
    /\ [][NextStop]_vars
    /\ WF_vars(StartAny)
    /\ WF_vars(ShutdownAny)
    /\ WF_vars(FinallyAny)

\* ================================================================ claims
\* helpers for the statements below
TimeOf(c) == c[1]
Admitted(c) == c[2]
Called == last.user /= 0
FreshIn(stamps, t) == {i \in DOMAIN stamps : t - stamps[i] < time_window}
StaleIn(stamps, t) == {i \in DOMAIN stamps : t - stamps[i] >= time_window}
KeptOf(stamps, t) == SelectSeq(stamps, LAMBDA x : t - x < time_window)
AdmittedIn(u, lo, hi) ==
    {k \in DOMAIN calls[u] :
        Admitted(calls[u][k]) /\ lo < TimeOf(calls[u][k]) /\ TimeOf(calls[u][k]) <= hi}
AdmittedTimes(u) ==
    LET adm == SelectSeq(calls[u], Admitted)
    IN [i \in DOMAIN adm |-> TimeOf(adm[i])]

\* C1: a call at time `now` returns true exactly when fewer than `limit` of
\* the identity's stored timestamps t satisfy now - t < window; a call that
\* returns true leaves the kept timestamps followed by exactly one new
\* timestamp equal to `now`.
C1_AdmitIffFewerThanLimit ==
    Called =>
        /\ last.result = (Cardinality(FreshIn(last.pre, last.time)) < limit)
        /\ rate_limits[last.user] = last.post
        /\ last.result => last.post = Append(KeptOf(last.pre, last.time), last.time)

C1_Witness ==
    /\ Called
    /\ last.result
    /\ FreshIn(last.pre, last.time) /= {}
    /\ StaleIn(last.pre, last.time) /= {}

\* C2: with one limit L and one window W for all calls and a clock that never
\* goes back, for every instant t the admitted calls of one identity whose
\* time lies in (t - W, t] number at most L.
C2_SlidingWindowQuota ==
    limit >= 0 =>
        \A u \in Users : \A t \in 0..(now + time_window) :
            Cardinality(AdmittedIn(u, t - time_window, t)) <= limit

C2_Witness ==
    \E u \in Users : \E i, j, k \in DOMAIN calls[u] :
        /\ i < j /\ j < k
        /\ Admitted(calls[u][i]) /\ Admitted(calls[u][j]) /\ Admitted(calls[u][k])
        /\ TimeOf(calls[u][k]) - TimeOf(calls[u][i]) >= time_window
        /\ TimeOf(calls[u][k]) - TimeOf(calls[u][j]) < time_window
        /\ TimeOf(calls[u][j]) - TimeOf(calls[u][i]) < time_window
        /\ TimeOf(calls[u][i]) < TimeOf(calls[u][j])
        /\ TimeOf(calls[u][j]) < TimeOf(calls[u][k])

\* C3: when every call uses the same limit L >= 1 and the same window, each
\* identity's stored sequence has at most L entries, a completed call leaves
\* no entry of age >= window behind, and a rejection is caused by L entries
\* of age < window, never by older ones.
C3_StoredAtMostLimit ==
    limit >= 1 =>
        /\ \A u \in DOMAIN rate_limits : Len(rate_limits[u]) <= limit
        /\ Called =>
            /\ StaleIn(last.post, last.time) = {}
            /\ ~last.result => Cardinality(FreshIn(last.pre, last.time)) >= limit

C3_Witness ==
    /\ limit >= 1
    /\ Called
    /\ last.result
    /\ StaleIn(last.pre, last.time) /= {}
    /\ Len(rate_limits[last.user]) = limit

\* C4: a rejected call leaves exactly the pre-call sequence without its
\* entries of age >= window, and the stored sequence of an identity is always
\* the times of its admitted calls that are younger than the window at its
\* latest call: rejected attempts leave no trace that could delay admission.
C4_RejectionRecordsNothing ==
    /\ (Called /\ ~last.result) =>
          /\ last.post = KeptOf(last.pre, last.time)
          /\ rate_limits[last.user] = last.post
    /\ \A u \in Users :
          calls[u] /= <<>> =>
              Stored(u) = KeptOf(AdmittedTimes(u), TimeOf(calls[u][Len(calls[u])]))

C4_Witness ==
    \E u \in Users : \E i, j, k \in DOMAIN calls[u] :
        /\ i < j /\ j < k
        /\ Admitted(calls[u][i])
        /\ ~Admitted(calls[u][j])
        /\ TimeOf(calls[u][j]) > TimeOf(calls[u][i])
        /\ Admitted(calls[u][k])
        /\ TimeOf(calls[u][k]) = TimeOf(calls[u][i]) + time_window
        /\ Cardinality(AdmittedIn(u, TimeOf(calls[u][i]) - 1, TimeOf(calls[u][i]))) = limit

\* C5: for a limit L >= 1, the first L calls of a fresh identity made at one
\* instant t all return true, every further call at t returns false, and a
\* call made more than W after t returns true when every call after t and
\* before it was rejected.
C5_BurstThenRecover ==
    limit >= 1 =>
        \A u \in Users : \A k \in DOMAIN calls[u] :
            LET t0 == TimeOf(calls[u][1])
                tk == TimeOf(calls[u][k])
            IN /\ tk = t0 => (Admitted(calls[u][k]) <=> k <= limit)
               /\ ( /\ tk > t0 + time_window
                    /\ \A j \in 1..(k - 1) :
                          TimeOf(calls[u][j]) > t0 => ~Admitted(calls[u][j]) )
                  => Admitted(calls[u][k])

C5_Witness ==
    /\ limit >= 1
    /\ \E u \in Users :
        /\ Len(calls[u]) >= limit + 3
        /\ \A k \in 1..(limit + 1) : TimeOf(calls[u][k]) = TimeOf(calls[u][1])
        /\ ~Admitted(calls[u][limit + 1])
        /\ ~Admitted(calls[u][limit + 2])
        /\ TimeOf(calls[u][limit + 2]) > TimeOf(calls[u][1])
        /\ TimeOf(calls[u][limit + 3]) > TimeOf(calls[u][1]) + time_window
        /\ Admitted(calls[u][limit + 3])

\* C6: with limit <= 0 every call returns false, for every identity and
\* every clock value, and no timestamp is ever stored.
C6_NonPositiveLimitRejects ==
    limit <= 0 =>
        /\ \A u \in Users : \A k \in DOMAIN calls[u] : ~Admitted(calls[u][k])
        /\ \A u \in DOMAIN rate_limits : rate_limits[u] = <<>>

C6_Witness ==
    /\ limit <= 0
    /\ \A u \in Users : calls[u] /= <<>>
    /\ \E u \in Users : \E j, k \in DOMAIN calls[u] :
          TimeOf(calls[u][j]) < TimeOf(calls[u][k])

GrantedTimes(u) ==
    LET mine == SelectSeq(granted, LAMBDA g : g[1] = u)
    IN [i \in DOMAIN mine |-> mine[i][2]]

\* C7: two handlers that check the same identity at the same clock value
\* while one slot is free are not both admitted, and whenever no check is in
\* progress every admitted timestamp still inside the window is stored: the
\* read-prune-append sequence of one check is never interleaved with another.
C7_ChecksAreAtomic ==
    /\ \A t1, t2 \in Tasks :
          ( /\ t1 /= t2
            /\ pc[t1] = "await" /\ pc[t2] = "await"
            /\ user_id[t1] = user_id[t2]
            /\ current_time[t1] = current_time[t2]
            /\ free[t1] = 1 /\ free[t2] <= 1 )
          => ~(result[t1] /\ result[t2])
    /\ loop = NoTask =>
          \A u \in DOMAIN rate_limits :
              rate_limits[u] = KeptOf(GrantedTimes(u), checked_at[u])

C7_Witness ==
    \E t1, t2 \in Tasks :
        /\ t1 /= t2
        /\ pc[t1] = "await" /\ pc[t2] = "await"
        /\ user_id[t1] = user_id[t2]
        /\ current_time[t1] = current_time[t2]
        /\ free[t1] = 1 /\ result[t1]
        /\ free[t2] = 0 /\ ~result[t2]
        /\ Len(rate_limits[user_id[t1]]) = limit
        /\ limit >= 2

\* helpers for the statements about split_message
RECURSIVE Join(_, _)
Join(parts, sep) ==
    IF parts = <<>> THEN <<>>
    ELSE IF Len(parts) = 1 THEN parts[1]
    ELSE parts[1] \o sep \o Join(Tail(parts), sep)

SeparatorChars == {".", " ", "\n"}
Letters(s) == SelectSeq(s, LAMBDA c : c \notin SeparatorChars)
Paragraphs(s) == SplitOn(s, NewLines)

\* C8: for every text and every max_length >= 1, every chunk returned by
\* split_message has length <= max_length.
C8_ChunksFit ==
    returned => \A i \in DOMAIN chunks : Len(chunks[i]) <= max_length

\* C9: the chunks, in output order, hold the content of the input exactly
\* once and in order.  Content is compared in the most lenient way: after
\* deleting every character a separator is made of ('.', ' ', newline).
C9_ContentOnceInOrder ==
    returned => Letters(Join(chunks, <<>>)) = Letters(text)

\* C10: for a text longer than max_length whose paragraphs (the pieces
\* between "\n\n") are non-empty and each at most max_length long, joining
\* the returned chunks with "\n\n" gives back the text.
C10_ParagraphRoundTrip ==
    ( /\ returned
      /\ Len(text) > max_length
      /\ \A i \in DOMAIN Paragraphs(text) :
            /\ Len(Paragraphs(text)[i]) >= 1
            /\ Len(Paragraphs(text)[i]) <= max_length )
    => Join(chunks, NewLines) = text

\* C11: a text with len(text) <= max_length comes back as the one-element
\* list [text], unchanged whatever separators it holds; the empty text
\* gives [""].
C11_ShortTextUnchanged ==
    (returned /\ Len(text) <= max_length) => chunks = <<text>>

C11_Witness ==
    /\ returned
    /\ Len(text) = max_length
    /\ FindSep(text, NewLines, 1) /= 0
    /\ FindSep(text, DotSpace, 1) /= 0
    /\ chunks = <<text>>

\* C12: a text of length n > max_length holding neither "\n\n" nor ". "
\* comes back as ceil(n / max_length) consecutive slices of the text, each
\* max_length long except possibly the last, which concatenate to the text.
C12_RawSlices ==
    ( /\ returned
      /\ Len(text) > max_length
      /\ FindSep(text, NewLines, 1) = 0
      /\ FindSep(text, DotSpace, 1) = 0 )
    => LET n == Len(text)
           q == n \div max_length
           count == IF q * max_length = n THEN q ELSE q + 1
       IN /\ Len(chunks) = count
          /\ \A k \in 1..count :
                /\ k < count => Len(chunks[k]) = max_length
                /\ \A i \in DOMAIN chunks[k] :
                      chunks[k][i] = text[(k - 1) * max_length + i]
          /\ Join(chunks, <<>>) = text

C12_Witness ==
    /\ returned
    /\ FindSep(text, NewLines, 1) = 0
    /\ FindSep(text, DotSpace, 1) = 0
    /\ Len(chunks) = 3
    /\ Len(chunks[1]) = max_length
    /\ Len(chunks[2]) = max_length
    /\ Len(chunks[3]) < max_length
    /\ \E i \in DOMAIN text : text[i] /= "a"

\* C13: for a non-empty text no returned chunk is the empty string; an
\* empty chunk is returned only for the empty text.
C13_NoEmptyChunk ==
    returned =>
        ((\E i \in DOMAIN chunks : chunks[i] = <<>>) => text = <<>>)

C13_Witness ==
    /\ returned
    /\ Len(text) > max_length
    /\ \E i \in DOMAIN Paragraphs(text) : Paragraphs(text)[i] = <<>>
    /\ \E i \in DOMAIN Paragraphs(text) :
          \E j \in DOMAIN SplitOn(Paragraphs(text)[i], DotSpace) :
              /\ Paragraphs(text)[i] /= <<>>
              /\ SplitOn(Paragraphs(text)[i], DotSpace)[j] = <<>>
    /\ chunks /= <<>>
    /\ \A i \in DOMAIN chunks : chunks[i] /= <<>>

\* helpers for the statements about safe_send_message
SendDone == send_pc = "done"
Failed(i) == sent[i].outcome /= "ok"
Rejected(i) == sent[i].outcome = "BadRequest"
Stripped(t) == SelectSeq(t, LAMBDA c : c \notin {"*", "_", "grave", "[", "]", "(", ")"})

\* C14: called with parse mode 'Markdown', when the transport rejects the
\* first two calls with BadRequest and accepts the third, the function
\* returns true after exactly three calls: the text as given with
\* 'Markdown', the sanitized text with 'MarkdownV2', then the text with every
\* * _ ` [ ] ( ) removed and no parse mode.
C14_FallbackSequence ==
    ( /\ SendDone
      /\ parse_mode = "Markdown"
      /\ Len(sent) >= 2
      /\ Rejected(1) /\ Rejected(2)
      /\ Len(sent) >= 3 => sent[3].outcome = "ok" )
    => /\ returns = "True"
       /\ Len(sent) = 3
       /\ sent[1].text = message /\ sent[1].mode = "Markdown"
       /\ sent[2].text = sanitize_markdown(message) /\ sent[2].mode = "MarkdownV2"
       /\ sent[3].text = Stripped(message) /\ sent[3].mode = "None"

C14_Witness ==
    /\ SendDone
    /\ parse_mode = "Markdown"
    /\ Len(sent) = 3
    /\ Rejected(1) /\ Rejected(2)
    /\ sent[3].outcome = "ok"
    /\ returns = "True"
    /\ Len(sent[3].text) < Len(message)
    /\ Len(sent[3].text) > 0
    /\ Len(sent[2].text) > Len(message)

\* C15: called with parse mode 'Markdown', when all three tiers are attempted
\* and each fails, the function returns false after exactly three calls and
\* no exception leaves it.
C15_AllTiersFail ==
    /\ ( /\ SendDone
         /\ parse_mode = "Markdown"
         /\ Len(sent) >= 2
         /\ Rejected(1) /\ Rejected(2)
         /\ Len(sent) >= 3 => Failed(3) )
       => (returns = "False" /\ Len(sent) = 3)
    /\ ( /\ SendDone
         /\ parse_mode = "Markdown"
         /\ Len(sent) = 3
         /\ \A i \in 1..3 : Failed(i) )
       => returns = "False"

C15_Witness ==
    /\ SendDone
    /\ parse_mode = "Markdown"
    /\ Len(sent) = 3
    /\ Rejected(1) /\ Rejected(2)
    /\ sent[3].outcome = "Other"
    /\ returns = "False"

\* C16: an invocation makes at most three transport calls, none after a
\* successful one; when it returns true exactly one call succeeded and it
\* is the last one made.
C16_OneSuccessAtMost ==
    /\ Len(sent) <= 3
    /\ \A i \in DOMAIN sent : sent[i].outcome = "ok" => i = Len(sent)
    /\ returns = "True" =>
          /\ sent /= <<>>
          /\ sent[Len(sent)].outcome = "ok"
          /\ Cardinality({i \in DOMAIN sent : sent[i].outcome = "ok"}) = 1

C16_Witness ==
    /\ SendDone
    /\ returns = "True"
    /\ Len(sent) = 2
    /\ sent[2].tier = 2

\* C17: a failure other than BadRequest at tier 1 or tier 2 ends the
\* operation at once as a delivery failure (the exception leaves the
\* function): that call is the last one and no later tier is attempted.
C17_OtherFailureEndsAtOnce ==
    \A i \in DOMAIN sent :
        (sent[i].tier \in {1, 2} /\ sent[i].outcome = "Other")
        => /\ i = Len(sent)
           /\ SendDone
           /\ returns = "raised"

C17_Witness ==
    /\ Len(sent) = 2
    /\ sent[2].tier = 2
    /\ sent[2].outcome = "Other"
    /\ SendDone

\* C18 as stated: the function returns false only if every applicable tier
\* (1, 2 when the mode is 'Markdown', 3) was attempted and failed.
AllApplicableTiersFailed ==
    /\ \A i \in DOMAIN sent : Failed(i)
    /\ \E i \in DOMAIN sent : sent[i].tier = 1
    /\ parse_mode = "Markdown" => \E i \in DOMAIN sent : sent[i].tier = 2
    /\ \E i \in DOMAIN sent : sent[i].tier = 3

C18_FalseOnlyAfterAllTiers ==
    returns = "False" => AllApplicableTiersFailed

\* C18 amended: the function returns false only if the update has no
\* effective chat, in which case no transport call is made, or every
\* applicable tier was attempted and failed.
C18_FalseOnlyWithoutChatOrAfterAllTiers ==
    returns = "False" =>
        \/ (~effective_chat /\ sent = <<>>)
        \/ (effective_chat /\ AllApplicableTiersFailed)

C18_Witness ==
    /\ returns = "False"
    /\ effective_chat
    /\ parse_mode = "Markdown"
    /\ Len(sent) = 3

\* C19: the pruning boundary is inclusive. A check removes every stored
\* timestamp whose age is exactly time_window and does not count it, so an
\* identity that filled its quota of limit >= 1 at time t is admitted by its
\* first check at exactly t + time_window; a timestamp of any age strictly
\* less than time_window is kept and still counted.
C19_InclusivePruningBoundary ==
    /\ Called =>
          /\ \A i \in DOMAIN last.post : last.time - last.post[i] /= time_window
          /\ \A i \in DOMAIN last.pre :
                last.time - last.pre[i] < time_window
                => \E j \in DOMAIN last.post : last.post[j] = last.pre[i]
          /\ limit >= 1 =>
                (last.result <=> Cardinality(FreshIn(last.pre, last.time)) < limit)
    /\ limit >= 1 =>
          \A u \in Users : \A k \in DOMAIN calls[u] :
              LET tk == TimeOf(calls[u][k])
              IN ( /\ Cardinality({j \in 1..(k - 1) :
                          /\ Admitted(calls[u][j])
                          /\ TimeOf(calls[u][j]) = tk - time_window}) = limit
                   /\ \A j \in 1..(k - 1) : TimeOf(calls[u][j]) /= tk )
                 => Admitted(calls[u][k])

C19_Witness ==
    /\ Called
    /\ limit >= 1
    /\ Len(last.pre) = limit
    /\ \A i \in DOMAIN last.pre : last.time - last.pre[i] = time_window
    /\ last.result
    /\ last.post = <<last.time>>
    /\ \E k \in DOMAIN calls[last.user] :
          /\ ~Admitted(calls[last.user][k])
          /\ TimeOf(calls[last.user][k]) = last.time - 1
          /\ time_window > 1

\* helpers for the statements about the order of the stored timestamps
NonDecreasing(stamps) ==
    \A i, j \in DOMAIN stamps : i < j => stamps[i] <= stamps[j]
ReadingsNonDecreasing(u) ==
    \A i, j \in DOMAIN calls[u] :
        i < j => TimeOf(calls[u][i]) <= TimeOf(calls[u][j])

\* C20 as stated: in every reachable state the timestamp sequence stored for
\* each identity is non-decreasing in the order the entries were appended.
C20_StoredNonDecreasing ==
    \A u \in Users : NonDecreasing(Stored(u))

\* C20 amended: for each identity whose checks read non-decreasing clock
\* values, the stored timestamp sequence is non-decreasing in the order the
\* entries were appended; a clock set back between two admitted checks of
\* one identity leaves a later entry smaller than an earlier one.
C20_NonDecreasingWhileClockIs ==
    \A u \in Users : ReadingsNonDecreasing(u) => NonDecreasing(Stored(u))

C20_Witness ==
    /\ clock_back
    /\ \E u \in Users :
          /\ ReadingsNonDecreasing(u)
          /\ Len(Stored(u)) >= 2
          /\ Stored(u)[1] < Stored(u)[2]
          /\ \E v \in Users : ~ReadingsNonDecreasing(v) /\ ~NonDecreasing(Stored(v))

\* helpers for the statements about the independence of identities
LastTimeOf(u) == TimeOf(calls[u][Len(calls[u])])
OwnHistoryOf(u) ==
    IF calls[u] = <<>> THEN <<>> ELSE KeptOf(AdmittedTimes(u), LastTimeOf(u))
EarlierOwnHistoryOf(u) ==
    LET prev == SubSeq(calls[u], 1, Len(calls[u]) - 1)
        adm == SelectSeq(prev, Admitted)
    IN IF prev = <<>> THEN <<>>
       ELSE KeptOf([i \in DOMAIN adm |-> TimeOf(adm[i])], TimeOf(prev[Len(prev)]))
OthersUntouched ==
    \A a \in Users :
        check_rate_limit(a, limit, time_window)
        => \A b \in Users \ {a} :
              /\ Stored(b)' = Stored(b)
              /\ calls'[b] = calls[b]

\* C21: a check_rate_limit call for identity A leaves the stored timestamps
\* of every other identity B unchanged; what is stored for B is determined
\* by B's own calls alone, and so is the result of each check for B, whatever
\* the calls made for other identities before it.
C21_IdentitiesIndependent ==
    /\ [][OthersUntouched]_vars
    /\ [](\A b \in Users : Stored(b) = OwnHistoryOf(b))
    /\ []((Called /\ limit >= 1) =>
            /\ last.pre = EarlierOwnHistoryOf(last.user)
            /\ last.result <=> Len(KeptOf(EarlierOwnHistoryOf(last.user), last.time)) < limit)

C21_Witness ==
    /\ Called
    /\ ~last.result
    /\ limit >= 1
    /\ \E b \in Users \ {last.user} :
          /\ Stored(b) /= <<>>
          /\ Len(Stored(b)) < limit
          /\ LastTimeOf(b) = last.time

\* helpers for the statement about the sentence tier
Range(f) == {f[i] : i \in DOMAIN f}
EmittedAsWritten(paragraph) ==
    \E i \in DOMAIN chunks : paragraph \in Range(Paragraphs(chunks[i]))

\* C22: the sentence tier is applied to a paragraph only when that paragraph
\* alone is longer than max_length: every non-empty paragraph of length <=
\* max_length of a split text is found in the chunks as written, not split
\* on '. ' and without a '. ' that the input did not contain.
C22_SentenceTierOnlyForLongParagraphs ==
    (returned /\ Len(text) > max_length)
    => \A i \in DOMAIN Paragraphs(text) :
          LET paragraph == Paragraphs(text)[i]
          IN (Len(paragraph) >= 1 /\ Len(paragraph) <= max_length)
             => EmittedAsWritten(paragraph)

\* helper: the tiers of the transport calls made so far
TiersTried == {sent[i].tier : i \in DOMAIN sent}

\* C23: the sanitized MarkdownV2 attempt (tier 2) is made if and only if
\* tier 1 was rejected with a formatting error and the requested parse mode
\* is 'Markdown'; for any other requested mode a tier-1 formatting rejection
\* leads directly to the plain-text tier, so at most two calls are made.
C23_SanitizedTierOnlyForMarkdown ==
    /\ 2 \in TiersTried => (Rejected(1) /\ parse_mode = "Markdown")
    /\ SendDone =>
          /\ (sent /= <<>> /\ Rejected(1) /\ parse_mode = "Markdown") => 2 \in TiersTried
          /\ (sent /= <<>> /\ Rejected(1) /\ parse_mode /= "Markdown")
             => (Len(sent) = 2 /\ sent[2].tier = 3)
    /\ parse_mode /= "Markdown" => Len(sent) <= 2

C23_Witness ==
    /\ SendDone
    /\ parse_mode = "HTML"
    /\ Len(sent) = 2
    /\ Rejected(1)
    /\ sent[2].tier = 3
    /\ sent[2].mode = "None"

\* helper: the transport calls of the invocation that have not ended yet
InFlight == {i \in DOMAIN sent : sent[i].outcome = "pending"}

\* C24: the tiers of one invocation run strictly one after another in the
\* order rich, sanitized, plain: a tier's call starts only after the call of
\* the tier before it has ended in a formatting rejection, no two calls of
\* the invocation are in flight together, and the text of the plain tier is
\* derived from the original text, not from the sanitized text of tier 2.
C24_TiersStrictlySequential ==
    /\ Cardinality(InFlight) <= 1
    /\ \A i \in DOMAIN sent :
          /\ i > 1 => (sent[i - 1].outcome = "BadRequest" /\ sent[i - 1].tier < sent[i].tier)
          /\ i = 1 => sent[i].tier = 1
          /\ sent[i].tier = 3 => sent[i].text = Stripped(message)

C24_Witness ==
    /\ Len(sent) = 3
    /\ InFlight = {3}
    /\ sent[2].tier = 2
    /\ sent[3].text /= Stripped(sent[2].text)
    /\ sent[3].text /= message

\* helpers for the statements about the handlers
Did(what) == \E i \in DOMAIN fx : fx[i].what = what
Times(what) == Cardinality({i \in DOMAIN fx : fx[i].what = what})
Before(first, second) ==
    \A j \in DOMAIN fx :
        fx[j].what = second => \E i \in 1..(j - 1) : fx[i].what = first
HandlerDone == h_pc = "done"

\* C25: when check_rate_limit rejects a text message, handle_message sends
\* exactly one wait message and does nothing else: no generative request, no
\* user lookup or creation, no message-history record, no activity update.
C25_RejectedMessageOnlyWaits ==
    (h_kind = "text" /\ h_check = "false")
    => /\ \A i \in DOMAIN fx : fx[i].what = "wait_message"
       /\ Len(fx) <= 1
       /\ HandlerDone => Len(fx) = 1

C25_Witness ==
    /\ h_kind = "text"
    /\ h_check = "false"
    /\ HandlerDone
    /\ limit >= 1
    /\ fx = <<[what |-> "wait_message", ok |-> TRUE]>>
    /\ ~propagated

\* C26: for an admitted text message handle_message saves the user's
\* message to history before the generative request; if sending the reply
\* fails, the user is sent the generic error message, the bot response is
\* not saved, the user's activity is still updated exactly once and no
\* exception leaves the handler.
C26_ReplyFailureIsAbsorbed ==
    (h_kind = "text" /\ h_check = "true")
    => /\ Before("save_user_message", "backend")
       /\ (HandlerDone /\ \E i \in DOMAIN fx : fx[i] = [what |-> "reply", ok |-> FALSE])
          => /\ \E i \in DOMAIN fx : fx[i] = [what |-> "error_message", ok |-> TRUE]
             /\ ~Did("save_bot_response")
             /\ Times("activity") = 1
             /\ ~propagated

\* C27: every generative request made for a user event is preceded, in the
\* same handler, by a check_rate_limit call for that user that returned
\* true, whatever the handler: text message, /learn, /search, inline button.
C27_BackendOnlyAfterAdmission ==
    Did("backend") => h_check = "true"

\* helper: the history with the messages of user b replaced by other ones
WithOtherMessagesOf(history, b) ==
    [i \in DOMAIN history |-> IF history[i] = b THEN 0 - b ELSE history[i]]

\* C28: the conversation history given to the backend for a request of user
\* A is the same in two runs that differ only in the messages of another
\* user B: replacing B's messages leaves the history of A's request as it is.
C28_HistoryOfOwnMessagesOnly ==
    last_request.user /= 0
    => \A b \in Users \ {last_request.user} :
          WithOtherMessagesOf(last_request.history, b) = last_request.history

\* helpers for the statement about the shutdown
Stopped(call) == Cardinality({i \in DOMAIN stop_log : stop_log[i][2] = call})
StopOrder == [i \in DOMAIN stop_log |-> stop_log[i][2]]

\* C29: after a SIGINT or SIGTERM is delivered to a running bot, run
\* eventually returns, and the shutdown sequence updater.stop,
\* application.stop, application.shutdown is executed exactly once, in that
\* order.
C29_SignalStopsTheBot ==
    /\ (signals > 0) ~> (run_pc = "returned" /\ StopOrder = StopCalls)
    /\ [](\A k \in DOMAIN StopCalls : Stopped(StopCalls[k]) <= 1)

====
